---------------------------- MODULE Spec2Model ----------------------------
(***************************************************************************)
(* Model of lambda_function.py: the Lex dialog-fulfillment handler of the  *)
(* RecommendPortfolio intent.                                              *)
(*                                                                         *)
(* Python values are represented as follows.                               *)
(*   - None is the empty tuple <<>>; any other value v held in a place     *)
(*     that may also hold None is the one-element tuple <<v>>.             *)
(*   - The strings that the code parses (the age and investmentAmount      *)
(*     slots) are tuples of one-character strings, so that int() and       *)
(*     float() are computed character by character.  All other strings     *)
(*     (names, labels, messages) are only compared or copied by the code   *)
(*     and are TLA+ strings.                                               *)
(*   - A number is a record: [kind |-> "nan"], [kind |-> "inf", sign] or   *)
(*     [kind |-> "fin", num, den], the rational num / den with den a       *)
(*     power of ten.  Every decimal string of the model has so few digits  *)
(*     that the double nearest to it compares with 5000 exactly as the     *)
(*     rational does.                                                      *)
(***************************************************************************)
EXTENDS Integers, Sequences, FiniteSets, TLC

VARIABLES
    event,              \* the intent_request object; its slots dict is mutated in place
    received,           \* the event as it was when the handler was entered
    response,           \* None, or <<the value lambda_handler returned>>
    raised,             \* None, or <<the message of the exception that left lambda_handler>>
    validation_result,  \* None, or <<the value validate_data returned in this invocation>>
    pc,                 \* "ready": an event awaits the handler; "returned": the handler is done
    history             \* the outcomes of the invocations of the current chain of turns

vars == <<event, received, response, raised, validation_result, pc, history>>

None == <<>>
Some(v) == <<v>>

-----------------------------------------------------------------------------
(* Bounds and program constants *)

\* the longest chain of handler invocations on one conversation
MaxTurns == 4

\* "age <= 0", line 101
AgeLow == 0
\* "age >= 65", line 101
AgeHigh == 65
\* "investment_amount < 5000", line 113
MinInvestment == 5000

-----------------------------------------------------------------------------
(* Numbers and Python's comparisons on them *)

NaN == [kind |-> "nan"]
Inf(sign) == [kind |-> "inf", sign |-> sign]
Fin(num, den) == [kind |-> "fin", num |-> num, den |-> den]

\* x < c, x <= c, x >= c for a number x and an integer c: every comparison
\* with nan is False.
lt(x, c) ==
    CASE x.kind = "nan" -> FALSE
      [] x.kind = "inf" -> x.sign < 0
      [] OTHER -> x.num < c * x.den

le(x, c) ==
    CASE x.kind = "nan" -> FALSE
      [] x.kind = "inf" -> x.sign < 0
      [] OTHER -> x.num <= c * x.den

ge(x, c) ==
    CASE x.kind = "nan" -> FALSE
      [] x.kind = "inf" -> x.sign > 0
      [] OTHER -> x.num >= c * x.den

-----------------------------------------------------------------------------
(* int(str) and float(str) *)

Digits == {"0", "1", "2", "3", "4", "5", "6", "7", "8", "9"}

DigitVal(c) ==
    CASE c = "0" -> 0 [] c = "1" -> 1 [] c = "2" -> 2 [] c = "3" -> 3
      [] c = "4" -> 4 [] c = "5" -> 5 [] c = "6" -> 6 [] c = "7" -> 7
      [] c = "8" -> 8 [] c = "9" -> 9

Whitespace == {" ", "\t", "\n"}

RECURSIVE LStrip(_)
LStrip(s) ==
    IF s # <<>> /\ Head(s) \in Whitespace THEN LStrip(Tail(s)) ELSE s

RECURSIVE RStrip(_)
RStrip(s) ==
    IF s # <<>> /\ s[Len(s)] \in Whitespace
    THEN RStrip(SubSeq(s, 1, Len(s) - 1))
    ELSE s

Strip(s) == RStrip(LStrip(s))

\* the sign of a literal and the literal without it
SignOf(s) == IF s # <<>> /\ Head(s) = "-" THEN -1 ELSE 1
Unsigned(s) == IF s # <<>> /\ Head(s) \in {"+", "-"} THEN Tail(s) ELSE s

\* a digit part: digits, with single underscores allowed between two digits
IsDigitPart(s) ==
    /\ s # <<>>
    /\ \A i \in 1..Len(s) : s[i] \in Digits \cup {"_"}
    /\ s[1] \in Digits
    /\ s[Len(s)] \in Digits
    /\ \A i \in 1..(Len(s) - 1) : ~(s[i] = "_" /\ s[i + 1] = "_")

RECURSIVE DigitPartValue(_)
DigitPartValue(s) ==
    IF s = <<>> THEN 0
    ELSE IF s[Len(s)] = "_" THEN DigitPartValue(SubSeq(s, 1, Len(s) - 1))
    ELSE 10 * DigitPartValue(SubSeq(s, 1, Len(s) - 1)) + DigitVal(s[Len(s)])

NumDigits(s) == Cardinality({i \in 1..Len(s) : s[i] \in Digits})

RECURSIVE Pow10(_)
Pow10(k) == IF k <= 0 THEN 1 ELSE 10 * Pow10(k - 1)

Lower(c) ==
    CASE c = "I" -> "i" [] c = "N" -> "n" [] c = "F" -> "f" [] c = "T" -> "t"
      [] c = "Y" -> "y" [] c = "A" -> "a" [] c = "E" -> "e" [] OTHER -> c

LowerAll(s) == [i \in 1..Len(s) |-> Lower(s[i])]

\* the position of the first c in s, or 0
IndexOf(s, c) ==
    IF \E i \in 1..Len(s) : s[i] = c
    THEN CHOOSE i \in 1..Len(s) : s[i] = c /\ \A j \in 1..(i - 1) : s[j] # c
    ELSE 0

\* the outcome of a conversion that raises ValueError
ValueError == [kind |-> "ValueError"]

\* int(n) of a string
IntOfStripped(s) ==
    IF IsDigitPart(Unsigned(s))
    THEN Fin(SignOf(s) * DigitPartValue(Unsigned(s)), 1)
    ELSE ValueError

IntOfString(n) == IntOfStripped(Strip(n))

\* float(n) of a string, computed in stages: the exponent is split off at the
\* first "e", the mantissa is split at its first ".", and the digits are scaled.
ScaledDecimal(digits, places, ex) ==
    Fin(digits * Pow10(ex), Pow10(places) * Pow10(-ex))

DecimalOfParts(sign, ipart, fpart, expo) ==
    IF /\ ipart = <<>> \/ IsDigitPart(ipart)
       /\ fpart = <<>> \/ IsDigitPart(fpart)
       /\ ipart # <<>> \/ fpart # <<>>
       /\ IsDigitPart(Unsigned(expo))
    THEN ScaledDecimal(
             sign * (DigitPartValue(ipart) * Pow10(NumDigits(fpart)) + DigitPartValue(fpart)),
             NumDigits(fpart),
             SignOf(expo) * DigitPartValue(Unsigned(expo)))
    ELSE ValueError

DecimalOfMantissa(sign, mant, dot, expo) ==
    DecimalOfParts(sign,
                   IF dot = 0 THEN mant ELSE SubSeq(mant, 1, dot - 1),
                   IF dot = 0 THEN <<>> ELSE SubSeq(mant, dot + 1, Len(mant)),
                   expo)

\* a literal without exponent has exponent 0
DecimalOfBody(sign, mant, expo) ==
    DecimalOfMantissa(sign, mant, IndexOf(mant, "."), expo)

DecimalOfLiteral(sign, body, e) ==
    DecimalOfBody(sign,
                  IF e = 0 THEN body ELSE SubSeq(body, 1, e - 1),
                  IF e = 0 THEN <<"0">> ELSE SubSeq(body, e + 1, Len(body)))

FloatOfBody(sign, body) ==
    IF body \in {<<"i", "n", "f">>, <<"i", "n", "f", "i", "n", "i", "t", "y">>}
    THEN Inf(sign)
    ELSE IF body = <<"n", "a", "n">>
    THEN NaN
    ELSE DecimalOfLiteral(sign, body, IndexOf(body, "e"))

FloatOfStripped(s) == FloatOfBody(SignOf(s), LowerAll(Unsigned(s)))

FloatOfString(n) == FloatOfStripped(Strip(n))

\* faulty variant: a failed conversion yields 0 instead of nan
ZeroOnValueError(r) == IF r = ValueError THEN Fin(0, 1) ELSE r

\* a conversion's result, with ValueError caught and replaced by float("nan")
NanOnValueError(r) == IF r = ValueError THEN NaN ELSE r

parse_int(n) == NanOnValueError(IntOfString(n))

parse_float(n) == NanOnValueError(FloatOfString(n))

-----------------------------------------------------------------------------
(* Helper functions *)

build_validation_result(is_valid, violated_slot, message_content) ==
    IF message_content = None
    THEN [isValid |-> is_valid, violatedSlot |-> violated_slot]
    ELSE [isValid |-> is_valid,
          violatedSlot |-> violated_slot,
          message |-> [contentType |-> "PlainText", content |-> message_content[1]]]

get_slots(intent_request) == intent_request.currentIntent.slots

elicit_slot(session_attributes, intent_name, slots, slot_to_elicit, message) ==
    [sessionAttributes |-> session_attributes,
     dialogAction |-> [type |-> "ElicitSlot",
                       intentName |-> intent_name,
                       slots |-> slots,
                       slotToElicit |-> slot_to_elicit,
                       message |-> message]]

delegate(session_attributes, slots) ==
    [sessionAttributes |-> session_attributes,
     dialogAction |-> [type |-> "Delegate", slots |-> slots]]

\* faulty variant: the closing response starts a fresh session
close_without_session(session_attributes, fulfillment_state, message) ==
    [sessionAttributes |-> <<>>,
     dialogAction |-> [type |-> "Close",
                       fulfillmentState |-> fulfillment_state,
                       message |-> message]]

close(session_attributes, fulfillment_state, message) ==
    [sessionAttributes |-> session_attributes,
     dialogAction |-> [type |-> "Close",
                       fulfillmentState |-> fulfillment_state,
                       message |-> message]]

AgeMessage ==
    "You should be at least 1 and below 65 years old. Please provide a different age."

InvestmentMessage ==
    "The amount to convert should be at least $5000. Please provide an amount of at least $5000."

\* faulty variant: "age > 65" for "age >= 65"
AgeOutOfRangeExclusive(age) == le(age, AgeLow) \/ ge(age, AgeHigh + 1)

\* "age <= 0 or age >= 65" on the parsed age
AgeOutOfRange(age) == le(age, AgeLow) \/ ge(age, AgeHigh)

\* faulty variant: "investment_amount <= 5000" for "investment_amount < 5000"
InvestmentTooLowInclusive(investment_amount) == le(investment_amount, MinInvestment)

\* "investment_amount < 5000" on the parsed amount
InvestmentTooLow(investment_amount) == lt(investment_amount, MinInvestment)

\* faulty variant: the investment amount is checked only when age is None
validate_data_else_if(age, investment_amount, intent_request) ==
    IF age # None
    THEN IF AgeOutOfRange(parse_int(age[1]))
         THEN build_validation_result(FALSE, Some("age"), Some(AgeMessage))
         ELSE build_validation_result(TRUE, None, None)
    ELSE IF investment_amount # None /\ InvestmentTooLow(parse_float(investment_amount[1]))
    THEN build_validation_result(FALSE, Some("investmentAmount"), Some(InvestmentMessage))
    ELSE build_validation_result(TRUE, None, None)

validate_data(age, investment_amount, intent_request) ==
    IF age # None /\ AgeOutOfRange(parse_int(age[1]))
    THEN build_validation_result(FALSE, Some("age"), Some(AgeMessage))
    ELSE IF investment_amount # None /\ InvestmentTooLow(parse_float(investment_amount[1]))
    THEN build_validation_result(FALSE, Some("investmentAmount"), Some(InvestmentMessage))
    ELSE build_validation_result(TRUE, None, None)

\* an allocation string "<b>% bonds (AGG), <e>% equities (SPY)", kept as its four pieces
Allocation(bonds, equities) == <<bonds, "% bonds (AGG), ", equities, "% equities (SPY)">>

recommendation_cases ==
    [label \in {"None", "Very Low", "Low", "Medium", "High", "Very High"} |->
        CASE label = "None" -> Allocation(100, 0)
          [] label = "Very Low" -> Allocation(80, 20)
          [] label = "Low" -> Allocation(60, 40)
          [] label = "Medium" -> Allocation(40, 60)
          [] label = "High" -> Allocation(20, 80)
          [] label = "Very High" -> Allocation(0, 100)]

\* dict.get(key, default), for a key that is None or a string
DictGet(dict, key, default) ==
    IF key # None /\ key[1] \in DOMAIN dict THEN dict[key[1]] ELSE default

\* faulty variant: an unknown label falls back to the riskiest allocation
get_initial_recommendation_risky_default(risk_level) ==
    DictGet(recommendation_cases, risk_level, Allocation(0, 100))

get_initial_recommendation(risk_level) ==
    DictGet(recommendation_cases, risk_level, Allocation(100, 0))

-----------------------------------------------------------------------------
(* Intent handler and dispatcher *)

\* faulty variant: the assignment is lost
SetSlotIgnored(slots, name, value) == slots

\* slots[name] = value
SetSlot(slots, name, value) == [slots EXCEPT ![name] = value]

\* "{}".format(v): None is rendered "None"
Str(v) == IF v = None THEN "None" ELSE v[1]

\* the content of the closing message, as the pieces str.format joins
ClosingContent(first_name, initial_recommendation) ==
    <<Str(first_name),
      " thank you for your information;\n            based on the risk level you defined, my recommendation is to choose an investment portfolio with ",
      initial_recommendation,
      "\n            ">>

\* Each handler below yields a record: returns is None or <<the value
\* returned>>; raises is None or <<the exception's message>>; slots is the
\* event's slots dict as the call leaves it (the dict is changed in place);
\* validated is None or <<the validation result computed>>.

\* lines 164-174: the violated slot has been cleaned in slots
ElicitViolatedSlot(intent_request, slots, validation) ==
    [returns |-> Some(elicit_slot(intent_request.sessionAttributes,
                                  intent_request.currentIntent.name,
                                  slots,
                                  validation.violatedSlot[1],
                                  validation.message)),
     raises |-> None,
     slots |-> slots,
     validated |-> Some(validation)]

\* faulty variant: the slots are returned with the violated slot not cleaned
DialogCodeHookNoClean(intent_request, slots, validation) ==
    IF ~validation.isValid
    THEN ElicitViolatedSlot(intent_request, slots, validation)
    ELSE [returns |-> Some(delegate(intent_request.sessionAttributes, slots)),
          raises |-> None,
          slots |-> slots,
          validated |-> Some(validation)]

\* lines 156-180
DialogCodeHook(intent_request, slots, validation) ==
    IF ~validation.isValid
    THEN ElicitViolatedSlot(intent_request,
                            SetSlot(slots, validation.violatedSlot[1], None),
                            validation)
    ELSE [returns |-> Some(delegate(intent_request.sessionAttributes, slots)),
          raises |-> None,
          slots |-> slots,
          validated |-> Some(validation)]

\* lines 182-197
Fulfillment(intent_request, slots) ==
    [returns |-> Some(close(intent_request.sessionAttributes,
                            "Fulfilled",
                            [contentType |-> "PlainText",
                             content |-> ClosingContent(
                                 slots.firstName,
                                 get_initial_recommendation(slots.riskLevel))])),
     raises |-> None,
     slots |-> slots,
     validated |-> None]

\* faulty variant: only "FulfillmentCodeHook" reaches the fulfillment branch
recommend_portfolio_strict(intent_request) ==
    IF intent_request.invocationSource # "FulfillmentCodeHook"
    THEN DialogCodeHook(intent_request,
                        get_slots(intent_request),
                        validate_data(get_slots(intent_request).age,
                                      get_slots(intent_request).investmentAmount,
                                      intent_request))
    ELSE Fulfillment(intent_request, get_slots(intent_request))

recommend_portfolio(intent_request) ==
    IF intent_request.invocationSource = "DialogCodeHook"
    THEN DialogCodeHook(intent_request,
                        get_slots(intent_request),
                        validate_data(get_slots(intent_request).age,
                                      get_slots(intent_request).investmentAmount,
                                      intent_request))
    ELSE Fulfillment(intent_request, get_slots(intent_request))

\* faulty variant: every intent name is routed to the handler
dispatch_any(intent_request) == recommend_portfolio(intent_request)

dispatch(intent_request) ==
    IF intent_request.currentIntent.name = "RecommendPortfolio"
    THEN recommend_portfolio(intent_request)
    ELSE [returns |-> None,
          raises |-> Some(<<"Intent with name ",
                            intent_request.currentIntent.name,
                            " not supported">>),
          slots |-> get_slots(intent_request),
          validated |-> None]

lambda_handler(ev, context) == dispatch(ev)

-----------------------------------------------------------------------------
(* The events the platform delivers *)

AgeStrings ==
    { <<"7", "0">>, <<"3", "0">>, <<"0">>, <<"1">>, <<"6", "4">>, <<"6", "5">>,
      <<"-", "5">>, <<"a", "b", "c">>, <<>>, <<"3", "0", ".", "0">>,
      <<" ", "6", "5", " ">> }

InvestmentStrings ==
    { <<"6", "0", "0", "0">>, <<"3", "0", "0", "0">>, <<"5", "0", "0", "0">>,
      <<"4", "9", "9", "9">>, <<"4", "9", "9", "9", ".", "9">>,
      <<"5", "e", "3">>, <<"1", "e", "3">>, <<"-", "1">>, <<"a", "b", "c">>, <<>>,
      <<"i", "n", "f">>, <<"-", "i", "n", "f">>, <<"n", "a", "n">>,
      <<"6", ",", "0", "0", "0">> }

FirstNames == {"Jane"}

RiskLevels ==
    {"None", "Very Low", "Low", "Medium", "High", "Very High", "", "high"}

IntentNames == {"RecommendPortfolio", "recommendportfolio", "RecommendPortfolio "}

InvocationSources == {"DialogCodeHook", "FulfillmentCodeHook", "UnexpectedHook"}

SessionAttributes == {<<>>, "userId" :> "u-1"}

Optional(S) == {None} \cup {Some(v) : v \in S}

Slots ==
    [firstName : Optional(FirstNames),
     age : Optional(AgeStrings),
     investmentAmount : Optional(InvestmentStrings),
     riskLevel : Optional(RiskLevels)]

Events ==
    [currentIntent : [name : IntentNames, slots : Slots],
     invocationSource : InvocationSources,
     sessionAttributes : SessionAttributes]

-----------------------------------------------------------------------------
(* The state machine: one handler invocation per delivered event *)

Init ==
    /\ event \in Events
    /\ received = event
    /\ response = None
    /\ raised = None
    /\ validation_result = None
    /\ pc = "ready"
    /\ history = <<>>

\* what an invocation leaves in the history of the conversation
Outcome(out) ==
    IF out.returns # None THEN out.returns[1].dialogAction ELSE [type |-> "Raised"]

\* the handler call ends with outcome out
Return(out) ==
    /\ event' = [event EXCEPT !.currentIntent.slots = out.slots]
    /\ response' = out.returns
    /\ raised' = out.raises
    /\ validation_result' = out.validated
    /\ history' = Append(history, Outcome(out))

\* the platform calls lambda_handler(event, context)
LambdaHandler ==
    /\ pc = "ready"
    /\ Return(lambda_handler(event, None))
    /\ pc' = "returned"
    /\ UNCHANGED received

\* the platform calls the code hook again on the slots it was handed back,
\* with no new user input
Reinvoke ==
    /\ pc = "returned"
    /\ response # None
    /\ response[1].dialogAction.type \in {"ElicitSlot", "Delegate"}
    /\ Len(history) < MaxTurns
    /\ event' = [event EXCEPT !.currentIntent.slots = response[1].dialogAction.slots,
                              !.invocationSource = "DialogCodeHook"]
    /\ received' = event'
    /\ response' = None
    /\ raised' = None
    /\ validation_result' = None
    /\ pc' = "ready"
    /\ UNCHANGED history

Next == LambdaHandler \/ Reinvoke

Spec == Init /\ [][Next]_vars

-----------------------------------------------------------------------------
(* Vocabulary of the properties *)

Returned == pc = "returned"

\* the slots, as the handler received them
InputSlots == received.currentIntent.slots

Supported == received.currentIntent.name = "RecommendPortfolio"

Dialog == received.invocationSource = "DialogCodeHook"

SlotNames == {"firstName", "age", "investmentAmount", "riskLevel"}

\* a parsed age that is an integer n with n <= 0 or n >= 65
IntegerOutside(a) == a.kind = "fin" /\ a.den = 1 /\ (a.num <= 0 \/ a.num >= 65)

\* a parsed age that is an integer n with 0 < n < 65
IntegerInside(a) == a.kind = "fin" /\ a.den = 1 /\ 0 < a.num /\ a.num < 65

\* a parsed amount x with x < 5000
Below5000(x) ==
    \/ x.kind = "fin" /\ x.num < 5000 * x.den
    \/ x.kind = "inf" /\ x.sign = -1

\* a parsed amount x with x >= 5000
AtLeast5000(x) ==
    \/ x.kind = "fin" /\ x.num >= 5000 * x.den
    \/ x.kind = "inf" /\ x.sign = 1

AgeAbsentOrInside == InputSlots.age = None \/ IntegerInside(parse_int(InputSlots.age[1]))

AgePresentAndOutside == InputSlots.age # None /\ IntegerOutside(parse_int(InputSlots.age[1]))

AmountAbsentOrEnough ==
    InputSlots.investmentAmount = None \/ AtLeast5000(parse_float(InputSlots.investmentAmount[1]))

AmountPresentAndLow ==
    InputSlots.investmentAmount # None /\ Below5000(parse_float(InputSlots.investmentAmount[1]))

AgeUnparsable == InputSlots.age # None /\ IntOfString(InputSlots.age[1]) = ValueError

AmountUnparsable ==
    InputSlots.investmentAmount # None /\ FloatOfString(InputSlots.investmentAmount[1]) = ValueError

InvalidAge ==
    [isValid |-> FALSE,
     violatedSlot |-> <<"age">>,
     message |-> [contentType |-> "PlainText",
                  content |-> "You should be at least 1 and below 65 years old. Please provide a different age."]]

InvalidAmount ==
    [isValid |-> FALSE,
     violatedSlot |-> <<"investmentAmount">>,
     message |-> [contentType |-> "PlainText",
                  content |-> "The amount to convert should be at least $5000. Please provide an amount of at least $5000."]]

Valid == [isValid |-> TRUE, violatedSlot |-> <<>>]

\* the response is a Delegate that hands back the received slots, none changed
DelegatesUnchanged ==
    /\ response # None
    /\ response[1].dialogAction = [type |-> "Delegate", slots |-> InputSlots]
    /\ event.currentIntent.slots = InputSlots

\* the allocation the specification gives for a risk level
ExpectedAllocation(risk_level) ==
    CASE risk_level = <<"None">> -> <<100, "% bonds (AGG), ", 0, "% equities (SPY)">>
      [] risk_level = <<"Very Low">> -> <<80, "% bonds (AGG), ", 20, "% equities (SPY)">>
      [] risk_level = <<"Low">> -> <<60, "% bonds (AGG), ", 40, "% equities (SPY)">>
      [] risk_level = <<"Medium">> -> <<40, "% bonds (AGG), ", 60, "% equities (SPY)">>
      [] risk_level = <<"High">> -> <<20, "% bonds (AGG), ", 80, "% equities (SPY)">>
      [] risk_level = <<"Very High">> -> <<0, "% bonds (AGG), ", 100, "% equities (SPY)">>
      [] OTHER -> <<100, "% bonds (AGG), ", 0, "% equities (SPY)">>

-----------------------------------------------------------------------------
(* Properties *)

\* C1: a DialogCodeHook event whose validation result is invalid is answered
\* by ElicitSlot for the violated slot: that slot is null in the returned
\* slots, every other slot has its input value, intentName is the input
\* intent name, and message is the validation result's PlainText message.
C1_ElicitSlotOnInvalid ==
    (/\ Returned /\ Supported /\ Dialog
     /\ ~validate_data(InputSlots.age, InputSlots.investmentAmount, received).isValid)
    => LET result == validate_data(InputSlots.age, InputSlots.investmentAmount, received)
           violated == result.violatedSlot[1]
       IN  /\ violated \in {"age", "investmentAmount"}
           /\ response # None
           /\ response[1].dialogAction.type = "ElicitSlot"
           /\ response[1].dialogAction.slotToElicit = violated
           /\ DOMAIN response[1].dialogAction.slots = SlotNames
           /\ response[1].dialogAction.slots[violated] = None
           /\ \A k \in SlotNames \ {violated} :
                  response[1].dialogAction.slots[k] = InputSlots[k]
           /\ response[1].dialogAction.intentName = received.currentIntent.name
           /\ response[1].dialogAction.message = result.message
           /\ result.message.contentType = "PlainText"

\* scenario 1, with an amount that is itself too low and must be kept
C1_Witness ==
    /\ Returned /\ Supported /\ Dialog
    /\ InputSlots.age = << <<"7", "0">> >>
    /\ InputSlots.investmentAmount = << <<"3", "0", "0", "0">> >>
    /\ InputSlots.firstName = <<"Jane">>
    /\ response # None
    /\ response[1].dialogAction.type = "ElicitSlot"
    /\ response[1].dialogAction.slotToElicit = "age"
    /\ response[1].dialogAction.slots.age = None

\* C2: for a DialogCodeHook event with age absent or an integer strictly
\* between 0 and 65, and investmentAmount absent or >= 5000, validate_data
\* returns valid with no violated slot and no message, and the response is
\* Delegate with the slots exactly as received.
C2_DelegateOnValid ==
    (Returned /\ Supported /\ Dialog /\ AgeAbsentOrInside /\ AmountAbsentOrEnough)
    => /\ validation_result = <<Valid>>
       /\ DelegatesUnchanged

\* scenario 3
C2_Witness ==
    /\ Returned /\ Supported /\ Dialog
    /\ InputSlots.age = << <<"3", "0">> >>
    /\ InputSlots.investmentAmount = << <<"6", "0", "0", "0">> >>
    /\ response # None
    /\ response[1].dialogAction.type = "Delegate"

\* C3: validate_data reports one violation, age before investment amount: a
\* present age <= 0 or >= 65 gives invalid with violated slot "age" whatever
\* the investment amount; an age absent or strictly between 0 and 65 with a
\* present amount < 5000 gives invalid with violated slot "investmentAmount".
C3_FirstViolationReported ==
    (Returned /\ Supported /\ Dialog)
    => /\ validation_result # None
       /\ AgePresentAndOutside => validation_result[1] = InvalidAge
       /\ (AgeAbsentOrInside /\ AmountPresentAndLow) => validation_result[1] = InvalidAmount

\* scenario 2
C3_Witness ==
    /\ Returned /\ Supported /\ Dialog
    /\ InputSlots.age = << <<"3", "0">> >>
    /\ InputSlots.investmentAmount = << <<"3", "0", "0", "0">> >>
    /\ validation_result = <<InvalidAmount>>
    /\ response[1].dialogAction.slotToElicit = "investmentAmount"

\* C4 as stated: whenever age is present, the validation result is determined
\* by age alone: invalid with violated slot "age" if age <= 0 or age >= 65 and
\* otherwise valid, independently of the investment amount.
C4_AgeAloneWhenPresent ==
    (Returned /\ Supported /\ Dialog /\ InputSlots.age # None)
    => validation_result = IF AgePresentAndOutside THEN <<InvalidAge>> ELSE <<Valid>>

\* C4 amended: the result is determined by age alone only when age is present
\* and <= 0 or >= 65 (invalid, violated slot "age"); when age is present and
\* passes its check, the investment amount is examined as if age were absent:
\* invalid with violated slot "investmentAmount" if the amount is present and
\* < 5000, and otherwise valid.
C4_AmountExaminedUnlessAgeFails ==
    (Returned /\ Supported /\ Dialog /\ InputSlots.age # None)
    => validation_result =
           IF AgePresentAndOutside THEN <<InvalidAge>>
           ELSE IF AmountPresentAndLow THEN <<InvalidAmount>>
           ELSE <<Valid>>

C4_Witness ==
    /\ Returned /\ Supported /\ Dialog
    /\ InputSlots.age = << <<"6", "4">> >>
    /\ InputSlots.investmentAmount = << <<"4", "9", "9", "9">> >>
    /\ validation_result = <<InvalidAmount>>

\* C5: unparsable numeric input fails open and never raises: an age string
\* that int() rejects is not reported as violated, an investmentAmount string
\* that float() rejects is not reported as violated, and with the other slot
\* absent or in range the result is valid and the response is Delegate with
\* the unparsable string still in the slots.
C5_UnparsableFailsOpen ==
    (Returned /\ Supported /\ Dialog)
    => /\ raised = None
       /\ validation_result # None
       /\ AgeUnparsable => validation_result[1].violatedSlot # <<"age">>
       /\ AmountUnparsable => validation_result[1].violatedSlot # <<"investmentAmount">>
       /\ (AgeUnparsable /\ AmountAbsentOrEnough)
              => validation_result = <<Valid>> /\ DelegatesUnchanged
       /\ (AmountUnparsable /\ AgeAbsentOrInside)
              => validation_result = <<Valid>> /\ DelegatesUnchanged

C5_Witness ==
    /\ Returned /\ Supported /\ Dialog
    /\ InputSlots.age = << <<"a", "b", "c">> >>
    /\ InputSlots.investmentAmount = << <<"6", "0", "0", "0">> >>
    /\ response # None
    /\ response[1].dialogAction.type = "Delegate"
    /\ response[1].dialogAction.slots.age = << <<"a", "b", "c">> >>

\* C6: dispatch matches the intent name exactly: for "RecommendPortfolio" it
\* returns what recommend_portfolio returns; for any other name it raises the
\* unsupported-intent error, returns no response, and leaves the event's
\* slots and sessionAttributes as they were.
C6_ExactMatchDispatch ==
    Returned
    => IF received.currentIntent.name = "RecommendPortfolio"
       THEN /\ raised = None
            /\ response # None
            /\ response = recommend_portfolio(received).returns
       ELSE /\ response = None
            /\ raised = << <<"Intent with name ", received.currentIntent.name, " not supported">> >>
            /\ validation_result = None
            /\ event = received

\* a case variant of the name, on an event the handler would have changed
C6_Witness ==
    /\ Returned
    /\ received.currentIntent.name = "recommendportfolio"
    /\ Dialog
    /\ InputSlots.age = << <<"7", "0">> >>
    /\ raised # None
    /\ response = None
    /\ event.currentIntent.slots.age = << <<"7", "0">> >>

\* C7: every invocation with intent name RecommendPortfolio returns exactly
\* one response, of type ElicitSlot, Delegate or Close, whose
\* sessionAttributes are the input event's, unmodified.
C7_OneResponseSessionEchoed ==
    (Returned /\ Supported)
    => /\ raised = None
       /\ Len(response) = 1
       /\ response[1].dialogAction.type \in {"ElicitSlot", "Delegate", "Close"}
       /\ response[1].sessionAttributes = received.sessionAttributes
       /\ event.sessionAttributes = received.sessionAttributes

C7_Witness ==
    /\ Returned /\ Supported
    /\ received.invocationSource = "UnexpectedHook"
    /\ received.sessionAttributes # <<>>
    /\ response # None
    /\ response[1].dialogAction.type = "Close"
    /\ response[1].sessionAttributes = received.sessionAttributes

\* C8: when invocationSource is anything but "DialogCodeHook", no validation
\* is performed and no slot is cleared, and the response is Close with
\* fulfillmentState "Fulfilled" and a PlainText message whose content holds
\* the firstName slot value (rendered "None" when the slot is null) and the
\* recommendation selected from the riskLevel slot, whatever age and
\* investmentAmount are.
C8_FulfillmentCloses ==
    (Returned /\ Supported /\ ~Dialog)
    => /\ validation_result = None
       /\ event.currentIntent.slots = InputSlots
       /\ response # None
       /\ response[1].dialogAction.type = "Close"
       /\ response[1].dialogAction.fulfillmentState = "Fulfilled"
       /\ response[1].dialogAction.message.contentType = "PlainText"
       /\ response[1].dialogAction.message.content[1] =
              (IF InputSlots.firstName = None THEN "None" ELSE InputSlots.firstName[1])
       /\ response[1].dialogAction.message.content[3] = ExpectedAllocation(InputSlots.riskLevel)

\* scenario 4, with an age and an amount that validation would reject
C8_Witness ==
    /\ Returned /\ Supported
    /\ received.invocationSource = "FulfillmentCodeHook"
    /\ InputSlots.firstName = <<"Jane">>
    /\ InputSlots.riskLevel = <<"High">>
    /\ InputSlots.age = << <<"7", "0">> >>
    /\ InputSlots.investmentAmount = << <<"3", "0", "0", "0">> >>
    /\ response # None
    /\ response[1].dialogAction.fulfillmentState = "Fulfilled"
    /\ response[1].dialogAction.message.content[1] = "Jane"
    /\ response[1].dialogAction.message.content[3] = <<20, "% bonds (AGG), ", 80, "% equities (SPY)">>

\* C9: get_initial_recommendation is total: each of the six labels maps to
\* its fixed allocation (100/0, 80/20, 60/40, 40/60, 20/80, 0/100, bonds plus
\* equities always 100), and every other input (the empty string, null, a
\* case variant) maps to the allocation of "None", without raising.
C9_RecommendationTotal ==
    (Returned /\ Supported /\ ~Dialog)
    => /\ raised = None
       /\ response # None
       /\ LET chosen == response[1].dialogAction.message.content[3]
          IN  /\ chosen = ExpectedAllocation(InputSlots.riskLevel)
              /\ chosen[1] + chosen[3] = 100
              /\ InputSlots.riskLevel \notin
                     {<<"None">>, <<"Very Low">>, <<"Low">>, <<"Medium">>, <<"High">>, <<"Very High">>}
                 => chosen = <<100, "% bonds (AGG), ", 0, "% equities (SPY)">>

\* a case variant of a label falls back to the allocation of "None"
C9_Witness ==
    /\ Returned /\ Supported /\ ~Dialog
    /\ InputSlots.riskLevel = <<"high">>
    /\ response # None
    /\ response[1].dialogAction.message.content[3] = <<100, "% bonds (AGG), ", 0, "% equities (SPY)">>

\* the positions of the ElicitSlot outcomes in the history
Elicits == {i \in 1..Len(history) : history[i].type = "ElicitSlot"}

\* C10: along a chain of DialogCodeHook re-invocations on the slots just
\* returned, each of age and investmentAmount is elicited at most once, a
\* slot that is null is never reported as violated afterwards, at most two
\* ElicitSlot responses occur (age before investmentAmount), the invocation
\* after the last ElicitSlot returns Delegate, and once Delegate is returned
\* every later invocation returns Delegate with the same slots.
C10_ChainConverges ==
    /\ Cardinality(Elicits) <= 2
    /\ \A i, j \in Elicits :
           i < j => /\ history[i].slotToElicit = "age"
                    /\ history[j].slotToElicit = "investmentAmount"
    /\ \A i \in Elicits : \A j \in (i + 1)..Len(history) :
           /\ history[j].slots[history[i].slotToElicit] = None
           /\ history[j].type = "ElicitSlot"
                  => history[j].slotToElicit # history[i].slotToElicit
    /\ \A i \in Elicits :
           (i < Len(history) /\ (i + 1) \notin Elicits) => history[i + 1].type = "Delegate"
    /\ Len(history) >= 3 => history[3].type = "Delegate"
    /\ \A i, j \in 1..Len(history) :
           (i < j /\ history[i].type = "Delegate") => history[j] = history[i]

\* both slots are elicited in turn, then Delegate is returned twice
C10_Witness ==
    /\ Returned
    /\ Len(history) = 4
    /\ history[1].type = "ElicitSlot" /\ history[1].slotToElicit = "age"
    /\ history[2].type = "ElicitSlot" /\ history[2].slotToElicit = "investmentAmount"
    /\ history[3].type = "Delegate"
    /\ history[4] = history[3]

=============================================================================
